---- MODULE Spec2Model ----
(***************************************************************************)
(* A model of mistio/run_script: the wrapper run.py (fetch, unpack,        *)
(* locate, bootstrap, run, frame the output) and its sibling               *)
(* execute_workflow.py (the same flow for a template fetched from a mist   *)
(* instance).  Both programs are single threaded; every action below is    *)
(* one stage of main() or one function it calls.                           *)
(***************************************************************************)
EXTENDS Integers, Sequences, FiniteSets, TLC

VARIABLES
    prog,         \* which program runs: "run", "execute_workflow", or a function under test
    pc,           \* the position in main() / in the called function
    caller,       \* where bootstrap_ansible returns to ("main" or "rap")
    args,         \* the parsed command line (parse_args)
    source,       \* what args.script (or the github tarball) turns out to hold
    randid,       \* the run separator chosen at the top of main
    out,          \* everything observable, in order: frames printed and commands run
    path,         \* the local variable `path` of main / find_path's result
    exit_code,    \* the local variable `exit_code` of main
    ret,          \* what main() returned
    exc,          \* the exception that left the try block ("" when none)
    scripts,      \* the directory tree unpack() produced
    venvIsDir,    \* os.path.isdir("./venv") in the working directory
    playerExists, \* os.path.isfile("venv/bin/ansible-playbook")
    cmdline       \* the command run_executable_file handed to shellcmd

vars == <<prog, pc, caller, args, source, randid, out, path, exit_code, ret, exc,
          scripts, venvIsDir, playerExists, cmdline>>

(***************************************************************************)
(* Bounds of the model.                                                    *)
(***************************************************************************)
MaxNodes == 3      \* files and directories in an unpacked tree
MaxTokens == 4     \* whitespace separated tokens in a parameter string
NumIds == 2        \* distinct values random.randrange may return
MaxRc == 1         \* largest exit code a command returns

(***************************************************************************)
(* Directory trees.  Node 0 is the directory that is searched; node i>0    *)
(* has a parent, a kind and a name.  Nodes are numbered level by level and *)
(* siblings by name, so every tree has one representation.                 *)
(***************************************************************************)
NameList == <<"deploy", "run", "main.sh", "main.py">>
Names == {NameList[i] : i \in 1..Len(NameList)}
NameIdx(nm) == CHOOSE i \in 1..Len(NameList) : NameList[i] = nm
Kinds == {"dir", "file"}

EmptyTree == [parent |-> <<>>, kind |-> <<>>, name |-> <<>>]

AddNode(t, p, k, nm) ==
    [parent |-> Append(t.parent, p), kind |-> Append(t.kind, k),
     name |-> Append(t.name, nm)]

CanAdd(t, p, nm) ==
    LET n == Len(t.parent) IN
    /\ p = 0 \/ t.kind[p] = "dir"
    /\ n > 0 => /\ t.parent[n] <= p
                /\ t.parent[n] = p => NameIdx(t.name[n]) < NameIdx(nm)

RECURSIVE TreesOfSize(_)
TreesOfSize(n) ==
    IF n = 0 THEN {EmptyTree}
    ELSE {AddNode(x[1], x[2], x[3], x[4]) :
            x \in {y \in TreesOfSize(n - 1) \X (0..(n - 1)) \X Kinds \X Names :
                     CanAdd(y[1], y[2], y[4])}}

Trees == UNION {TreesOfSize(n) : n \in 0..MaxNodes}

\* os.listdir(dirname)
listdir(t, d) == {i \in 1..Len(t.parent) : t.parent[i] = d}
\* os.path.isdir / os.path.isfile of an entry
isdir(t, i) == t.kind[i] = "dir"
isfile(t, i) == t.kind[i] = "file"
\* fnmatch of a name against 'main.*'
MatchesMainStar(nm) == nm \in {"main.sh", "main.py"}
\* glob.glob(os.path.join(dirname, 'main.*')): every entry whose name matches,
\* a directory as well as a file
glob_main(t, d) == {i \in listdir(t, d) : MatchesMainStar(t.name[i])}

(***************************************************************************)
(* find_path.  One pass of its `while True` loop either moves to the only  *)
(* entry of the directory (cont), returns an entry, or raises.  The order  *)
(* of os.listdir (and so of glob) is not specified, so paths[0] is any of  *)
(* the matches: an iteration yields the set of outcomes it can have.       *)
(***************************************************************************)
Found(i) == [raised |-> FALSE, cont |-> FALSE, node |-> i, err |-> ""]
Descend(i) == [raised |-> FALSE, cont |-> TRUE, node |-> i, err |-> ""]
Raise(e) == [raised |-> TRUE, cont |-> FALSE, node |-> 0, err |-> e]

find_path_iter(t, dirname, filename) ==
    LET ldir == listdir(t, dirname) IN
    IF ldir = {} THEN {Raise("Directory is empty.")}
    ELSE IF Cardinality(ldir) = 1
    THEN LET e == CHOOSE i \in ldir : TRUE IN
         IF isdir(t, e) THEN {Descend(e)} ELSE {Found(e)}
    ELSE IF filename # "" /\ \E i \in ldir : t.name[i] = filename /\ isfile(t, i)
    THEN {Found(CHOOSE i \in ldir : t.name[i] = filename)}
    ELSE LET paths == glob_main(t, dirname) IN
         IF paths = {} THEN {Raise("No files match 'main.*'.")}
         ELSE {Found(i) : i \in paths}

RECURSIVE find_path_loop(_, _, _)
find_path_loop(t, dirname, filename) ==
    UNION {IF r.cont THEN find_path_loop(t, r.node, filename) ELSE {r} :
             r \in find_path_iter(t, dirname, filename)}

\* A directory the program names: it may not exist (nothing was extracted).
Dir(t) == [exists |-> TRUE, tree |-> t]
NoDir == [exists |-> FALSE, tree |-> EmptyTree]

\* dirname = os.path.abspath(dirname); if it is no directory, os.getcwd()
search_root(dir, cwd) == IF dir.exists THEN dir.tree ELSE cwd

find_path(dir, cwd, filename) == find_path_loop(search_root(dir, cwd), 0, filename)

\* find_folder: the only entry of the directory if that is a directory; it
\* falls off its end (returns None) when the only entry is a file.
ReturnNone == [raised |-> FALSE, cont |-> FALSE, node |-> 0, err |-> "None"]

find_folder(dir, cwd) ==
    LET t == search_root(dir, cwd)
        ldir == listdir(t, 0) IN
    IF ldir = {} THEN Raise("Directory is empty.")
    ELSE IF Cardinality(ldir) = 1
    THEN LET e == CHOOSE i \in ldir : TRUE IN
         IF isdir(t, e) THEN Found(e) ELSE ReturnNone
    ELSE Raise("No folder found")

(***************************************************************************)
(* Parameter strings.  A string is modelled by its whitespace separated    *)
(* tokens (params.split()); " ".join gives the string back.  None is the   *)
(* value argparse leaves when -p is not given.                             *)
(***************************************************************************)
Sentinel == "--mist-export-params"
Tokens == {Sentinel, "FOO=bar", "--flag", "baz", "--mist-export-params=no"}
\* p.startswith("-") or p.startswith("--")
StartsWithDash(p) == p \in {Sentinel, "--flag", "--mist-export-params=no"}
\* p.find("=") != -1
HasEq(p) == p \in {"FOO=bar", "--mist-export-params=no"}
\* "--mist-export-params" in p
HoldsSentinel(p) == p \in {Sentinel, "--mist-export-params=no"}

None == [given |-> FALSE, toks |-> <<>>]
Str(toks) == [given |-> TRUE, toks |-> toks]

RECURSIVE SeqsUpTo(_, _)
SeqsUpTo(S, n) ==
    IF n = 0 THEN {<<>>}
    ELSE LET shorter == SeqsUpTo(S, n - 1) IN
         shorter \cup {Append(s, x) : s \in {q \in shorter : Len(q) = n - 1}, x \in S}

\* "--mist-export-params" in params: a substring test on the whole string
contains_sentinel(toks) == \E i \in 1..Len(toks) : HoldsSentinel(toks[i])

\* the `for p in paramsarray` loop of run_executable_file, from index i on
RECURSIVE export_scan(_, _, _, _, _)
export_scan(toks, i, export, exportcmd, paramsarrayremove) ==
    IF i > Len(toks)
    THEN [exportcmd |-> exportcmd, remove |-> paramsarrayremove]
    ELSE LET p == toks[i] IN
         IF p = Sentinel \/ export
         THEN IF export
              THEN IF StartsWithDash(p)
                   THEN [exportcmd |-> exportcmd, remove |-> paramsarrayremove]
                   ELSE IF HasEq(p)
                   THEN export_scan(toks, i + 1, TRUE, Append(exportcmd, p),
                                    Append(paramsarrayremove, p))
                   ELSE export_scan(toks, i + 1, TRUE, exportcmd, paramsarrayremove)
              ELSE export_scan(toks, i + 1, TRUE, exportcmd,
                               Append(paramsarrayremove, p))
         ELSE export_scan(toks, i + 1, FALSE, exportcmd, paramsarrayremove)

\* list.remove(x): drops the first element equal to x
list_remove(s, x) ==
    LET k == CHOOSE i \in 1..Len(s) : s[i] = x /\ \A j \in 1..(i - 1) : s[j] # x IN
    [i \in 1..(Len(s) - 1) |-> IF i < k THEN s[i] ELSE s[i + 1]]

\* `for p in paramsarrayremove: paramsarray.remove(p)`
RECURSIVE remove_all(_, _)
remove_all(s, rm) ==
    IF rm = <<>> THEN s ELSE remove_all(list_remove(s, Head(rm)), Tail(rm))

\* The command run_executable_file builds: the export statements put in
\* front of the path, and the arguments put after it.
build_cmd(toks) ==
    IF contains_sentinel(toks)
    THEN LET r == export_scan(toks, 1, FALSE, <<>>, <<>>) IN
         [exports |-> r.exportcmd, args |-> remove_all(toks, r.remove)]
    ELSE [exports |-> <<>>, args |-> toks]

NoCmd == [exports |-> <<>>, args |-> <<>>]

(***************************************************************************)
(* What a run does that can be observed, in order.                         *)
(***************************************************************************)
RandIds == 1..NumIds
ExitCodes == -1..MaxRc

Evt(k, n, v) == [k |-> k, n |-> n, v |-> v]
\* mksep drawing a token of its own instead of reading randid
mksep_fresh(part) == Evt("frame", part, (randid % NumIds) + 1)

\* mksep = lambda part: '-----part-%s-%s-----' % (part, randid)
mksep(part) == Evt("frame", part, randid)
\* urllib.urlretrieve: v = 0 when it returned, 1 when it raised
Download(what, rc) == Evt("download", what, rc)
\* shellcmd(cmd): v is the command's return code
Cmd(what, rc) == Evt("cmd", what, rc)
\* the call that runs the user's script, playbook or workflow
Invoke(what, rc) == Evt("invoke", what, rc)
\* os.path.isfile(what): v = 1 when it is a file
IsFile(what, yes) == Evt("isfile", what, IF yes THEN 1 ELSE 0)

\* values of the local variable `path`
Unbound == [kind |-> "unbound", node |-> 0]
ScriptFile == [kind |-> "script", node |-> 0]
Downloaded == [kind |-> "download", node |-> 0]
Entry(i) == [kind |-> "entry", node |-> i]

\* raise: leave the try block for the except clause of main
throw(e) == /\ exc' = e
            /\ pc' = "except"

\* shellcmd that raises on every non-zero return code
shellcmd_raises_always(rc, break_on_error) == rc # 0

\* shellcmd(cmd, break_on_error): raises on a non-zero return code when asked to
shellcmd_raises(rc, break_on_error) == rc # 0 /\ break_on_error

(***************************************************************************)
(* run.py: main                                                            *)
(***************************************************************************)
\* randid = ...; print mksep('bootstrap')
Main_Start ==
    /\ prog = "run" /\ pc = "start"
    /\ \E r \in RandIds :
         /\ randid' = r
         /\ out' = Append(out, Evt("frame", "bootstrap", r))
    /\ pc' = "acquire"
    /\ UNCHANGED <<prog, caller, args, source, path, exit_code, ret, exc, scripts,
                   venvIsDir, playerExists, cmdline>>

\* if os.path.isfile(args.script): path = args.script  else: path = download(...)
Main_Acquire ==
    /\ prog = "run" /\ pc = "acquire"
    /\ IF args.isfile
       THEN /\ path' = ScriptFile
            /\ pc' = "unpack"
            /\ UNCHANGED <<out, exc>>
       ELSE \E rc \in {0, 1} :
              /\ out' = Append(out, Download("script", rc))
              /\ IF rc = 0
                 THEN path' = Downloaded /\ pc' = "unpack" /\ exc' = exc
                 ELSE path' = path /\ throw("download failed")
    /\ UNCHANGED <<prog, caller, args, source, randid, exit_code, ret, scripts,
                   venvIsDir, playerExists, cmdline>>

\* unpack(path, dirname): extracts a tar or zip archive, raises on anything else.
\* An archive without members creates no directory.
\* (An archive that breaks while it is extracted is not modelled: main treats
\* it like a source that is no archive.)
unpack(src) ==
    IF src.archive
    THEN [raised |-> FALSE,
          dir |-> IF Len(src.tree.parent) = 0 THEN NoDir ELSE Dir(src.tree)]
    ELSE [raised |-> TRUE, dir |-> NoDir]

\* try: unpack(path, 'scripts/')  except: pass  else: path = find_path('scripts', args.file)
\* The working directory is the fresh tmpdir: it holds nothing but scripts/.
Main_Unpack ==
    /\ prog = "run" /\ pc = "unpack"
    /\ LET u == unpack(source) IN
       IF u.raised
       THEN /\ pc' = "select"
            /\ UNCHANGED <<path, exc, scripts>>
       ELSE /\ scripts' = u.dir
            /\ \E r \in find_path(u.dir, EmptyTree, args.file) :
                 IF r.raised
                 THEN path' = path /\ throw(r.err)
                 ELSE path' = Entry(r.node) /\ pc' = "select" /\ exc' = exc
    /\ UNCHANGED <<prog, caller, args, source, randid, out, exit_code, ret,
                   venvIsDir, playerExists, cmdline>>

\* the function main binds to `run`
run_of(a) ==
    IF a.ansible THEN "run_ansible_playbook"
    ELSE IF a.template THEN "run_template"
    ELSE "run_executable_file"

\* if args.ansible: bootstrap_ansible() ... elif args.template: bootstrap_template(...)
Main_Select ==
    /\ prog = "run" /\ pc = "select"
    /\ IF args.ansible THEN pc' = "ba_venv" /\ caller' = "main"
       ELSE IF args.template THEN pc' = "bt_find" /\ caller' = caller
       ELSE pc' = "frames" /\ caller' = caller
    /\ UNCHANGED <<prog, args, source, randid, out, path, exit_code, ret, exc,
                   scripts, venvIsDir, playerExists, cmdline>>

(***************************************************************************)
(* run.py: bootstrap_venv and bootstrap_ansible.  Each download, unpack    *)
(* and shell command is a step; every shellcmd here breaks on error.       *)
(***************************************************************************)
\* one step of a function: it is observed, and either raises or goes on
Step(from, e, raises, msg, to) ==
    /\ pc = from
    /\ out' = Append(out, e)
    /\ IF raises THEN throw(msg) ELSE pc' = to /\ exc' = exc

\* if not os.path.isdir(venv): ... bootstrap_venv(venv)
BA_Venv ==
    /\ prog = "run" /\ pc = "ba_venv"
    /\ pc' = IF venvIsDir THEN "ba_download" ELSE "bv_download"
    /\ UNCHANGED <<prog, caller, args, source, randid, out, path, exit_code, ret,
                   exc, scripts, venvIsDir, playerExists, cmdline>>

\* venv_tarball_path = download(".../virtualenv-%s.tar.gz")
BV_Download ==
    /\ prog = "run"
    /\ \E rc \in {0, 1} :
         Step("bv_download", Download("virtualenv", rc), rc # 0,
              "download failed", "bv_unpack")
    /\ UNCHANGED <<prog, caller, args, source, randid, path, exit_code, ret,
                   scripts, venvIsDir, playerExists, cmdline>>

\* unpack(venv_tarball_path): raises when what was fetched is no archive
BV_Unpack ==
    /\ prog = "run"
    /\ \E rc \in {0, 1} :
         Step("bv_unpack", Evt("unpack", "virtualenv", rc), rc # 0,
              "not a valid tar or zip archive", "bv_create")
    /\ UNCHANGED <<prog, caller, args, source, randid, path, exit_code, ret,
                   scripts, venvIsDir, playerExists, cmdline>>

\* shellcmd("python virtualenv-x/virtualenv.py ./venv")
BV_Create ==
    /\ prog = "run"
    /\ \E rc \in ExitCodes :
         /\ Step("bv_create", Cmd("virtualenv.py", rc), shellcmd_raises(rc, TRUE),
                 "command exited with return code", "bv_pip")
         /\ venvIsDir' = (rc = 0 \/ venvIsDir)
    /\ UNCHANGED <<prog, caller, args, source, randid, path, exit_code, ret,
                   scripts, playerExists, cmdline>>

\* shellcmd("venv/bin/pip install virtualenv-x/")
BV_Pip ==
    /\ prog = "run"
    /\ \E rc \in ExitCodes :
         Step("bv_pip", Cmd("pip install virtualenv", rc), shellcmd_raises(rc, TRUE),
              "command exited with return code", "ba_download")
    /\ UNCHANGED <<prog, caller, args, source, randid, path, exit_code, ret,
                   scripts, venvIsDir, playerExists, cmdline>>

\* ansible_tarball_path = download(".../ansible-%s.tar.gz")
BA_Download ==
    /\ prog = "run"
    /\ \E rc \in {0, 1} :
         Step("ba_download", Download("ansible", rc), rc # 0,
              "download failed", "ba_unpack")
    /\ UNCHANGED <<prog, caller, args, source, randid, path, exit_code, ret,
                   scripts, venvIsDir, playerExists, cmdline>>

\* unpack(ansible_tarball_path)
BA_Unpack ==
    /\ prog = "run"
    /\ \E rc \in {0, 1} :
         Step("ba_unpack", Evt("unpack", "ansible", rc), rc # 0,
              "not a valid tar or zip archive", "ba_sed_pycrypto")
    /\ UNCHANGED <<prog, caller, args, source, randid, path, exit_code, ret,
                   scripts, venvIsDir, playerExists, cmdline>>

\* shellcmd("sed -i ... pycrypto ... setup.py")
BA_SedPycrypto ==
    /\ prog = "run"
    /\ \E rc \in ExitCodes :
         Step("ba_sed_pycrypto", Cmd("sed pycrypto", rc), shellcmd_raises(rc, TRUE),
              "command exited with return code", "ba_sed_paramiko")
    /\ UNCHANGED <<prog, caller, args, source, randid, path, exit_code, ret,
                   scripts, venvIsDir, playerExists, cmdline>>

\* shellcmd("sed -i ... paramiko ... setup.py")
BA_SedParamiko ==
    /\ prog = "run"
    /\ \E rc \in ExitCodes :
         Step("ba_sed_paramiko", Cmd("sed paramiko", rc), shellcmd_raises(rc, TRUE),
              "command exited with return code", "ba_pip")
    /\ UNCHANGED <<prog, caller, args, source, randid, path, exit_code, ret,
                   scripts, venvIsDir, playerExists, cmdline>>

\* shellcmd("venv/bin/pip install ansible-x/").  The command is opaque: its
\* return code does not say whether venv/bin/ansible-playbook was written.
BA_Pip ==
    /\ prog = "run"
    /\ \E rc \in ExitCodes :
         /\ Step("ba_pip", Cmd("pip install ansible", rc), shellcmd_raises(rc, TRUE),
                 "command exited with return code", "ba_write")
         /\ \E made \in BOOLEAN : playerExists' = (playerExists \/ (rc = 0 /\ made))
    /\ UNCHANGED <<prog, caller, args, source, randid, path, exit_code, ret,
                   scripts, venvIsDir, cmdline>>

\* write inventory and ansible.cfg, then return to the caller:
\* main (line 343) goes on to print the frames, run_ansible_playbook to its command
BA_Write ==
    /\ prog = "run" /\ pc = "ba_write"
    /\ pc' = IF caller = "main" THEN "frames" ELSE "rap_invoke"
    /\ UNCHANGED <<prog, caller, args, source, randid, out, path, exit_code, ret,
                   exc, scripts, venvIsDir, playerExists, cmdline>>

(***************************************************************************)
(* run.py: bootstrap_template                                              *)
(***************************************************************************)
\* path = find_folder('scripts'); os.chdir(path); write inputs.yaml.
\* os.chdir(None) raises TypeError.
BT_Find ==
    /\ prog = "run" /\ pc = "bt_find"
    /\ LET r == find_folder(scripts, EmptyTree) IN
       IF r.raised THEN throw(r.err)
       ELSE IF r = ReturnNone THEN throw("TypeError: chdir(None)")
       ELSE pc' = "bt_venv" /\ exc' = exc
    /\ UNCHANGED <<prog, caller, args, source, randid, out, path, exit_code, ret,
                   scripts, venvIsDir, playerExists, cmdline>>

\* shellcmd("virtualenv env", break_on_error=False)
BT_Venv ==
    /\ prog = "run"
    /\ \E rc \in ExitCodes :
         Step("bt_venv", Cmd("virtualenv env", rc), shellcmd_raises(rc, FALSE),
              "command exited with return code", "bt_pip_cloudify")
    /\ UNCHANGED <<prog, caller, args, source, randid, path, exit_code, ret,
                   scripts, venvIsDir, playerExists, cmdline>>

\* shellcmd("env/bin/pip install cloudify", break_on_error=False)
BT_PipCloudify ==
    /\ prog = "run"
    /\ \E rc \in ExitCodes :
         Step("bt_pip_cloudify", Cmd("pip install cloudify", rc),
              shellcmd_raises(rc, FALSE),
              "command exited with return code", "bt_pip_requirements")
    /\ UNCHANGED <<prog, caller, args, source, randid, path, exit_code, ret,
                   scripts, venvIsDir, playerExists, cmdline>>

\* shellcmd("env/bin/pip install -r dev-requirements.txt")
BT_PipRequirements ==
    /\ prog = "run"
    /\ \E rc \in ExitCodes :
         Step("bt_pip_requirements", Cmd("pip install -r dev-requirements.txt", rc),
              shellcmd_raises(rc, TRUE),
              "command exited with return code", "bt_init")
    /\ UNCHANGED <<prog, caller, args, source, randid, path, exit_code, ret,
                   scripts, venvIsDir, playerExists, cmdline>>

\* return shellcmd("env/bin/cfy local init -p ... -i inputs.yaml", break_on_error=False)
BT_Init ==
    /\ prog = "run"
    /\ \E rc \in ExitCodes :
         Step("bt_init", Cmd("cfy local init", rc), shellcmd_raises(rc, FALSE),
              "command exited with return code", "frames")
    /\ UNCHANGED <<prog, caller, args, source, randid, path, exit_code, ret,
                   scripts, venvIsDir, playerExists, cmdline>>

(***************************************************************************)
(* run.py: main, from the `script` frame on                                *)
(***************************************************************************)
\* Main_Frames that closes the bootstrap phase but opens no script phase
Main_Frames_NoScript ==
    /\ prog = "run" /\ pc = "frames"
    /\ out' = Append(out, mksep("end"))
    /\ pc' = "run"
    /\ UNCHANGED <<prog, caller, args, source, randid, path, exit_code, ret, exc,
                   scripts, venvIsDir, playerExists, cmdline>>

\* print mksep('end'); print mksep('script')
Main_Frames ==
    /\ prog = "run" /\ pc = "frames"
    /\ out' = out \o <<mksep("end"), mksep("script")>>
    /\ pc' = "run"
    /\ UNCHANGED <<prog, caller, args, source, randid, path, exit_code, ret, exc,
                   scripts, venvIsDir, playerExists, cmdline>>

\* run_executable_file(path, params): `"--mist-export-params" in params` raises
\* TypeError when params is None; otherwise the command is built and run with
\* break_on_error=False, and its return code returned.
run_executable_file(on_raise, on_return) ==
    IF ~args.params.given
    THEN /\ exc' = "TypeError: argument of type 'NoneType' is not iterable"
         /\ pc' = on_raise
         /\ UNCHANGED <<out, exit_code, cmdline>>
    ELSE \E rc \in ExitCodes :
           /\ cmdline' = build_cmd(args.params.toks)
           /\ out' = Append(out, Invoke("entrypoint", rc))
           /\ IF shellcmd_raises(rc, FALSE)
              THEN /\ exc' = "command exited with return code"
                   /\ pc' = on_raise
                   /\ exit_code' = exit_code
              ELSE /\ exit_code' = rc
                   /\ pc' = on_return
                   /\ exc' = exc

\* exit_code = run(path, args.params) with run = run_executable_file
RunExecutable ==
    /\ prog = "run" /\ pc = "run" /\ run_of(args) = "run_executable_file"
    /\ run_executable_file("except", "outfile")
    /\ UNCHANGED <<prog, caller, args, source, randid, path, ret, scripts,
                   venvIsDir, playerExists>>

\* exit_code = run(args.workflow) with run = run_template; os.chdir(tmpdir)
RunTemplate ==
    /\ prog = "run" /\ run_of(args) = "run_template"
    /\ \E rc \in ExitCodes :
         /\ Step("run", Invoke("cfy local execute", rc), shellcmd_raises(rc, FALSE),
                 "command exited with return code", "outfile")
         /\ exit_code' = IF shellcmd_raises(rc, FALSE) THEN exit_code ELSE rc
    /\ UNCHANGED <<prog, caller, args, source, randid, path, ret, scripts,
                   venvIsDir, playerExists, cmdline>>

\* RAP_Check that never bootstraps
RAP_Check_NoBootstrap ==
    /\ prog = "run" /\ pc = "run" /\ run_of(args) = "run_ansible_playbook"
    /\ out' = Append(out, IsFile("venv/bin/ansible-playbook", playerExists))
    /\ pc' = "rap_invoke"
    /\ UNCHANGED <<prog, caller, args, source, randid, path, exit_code, ret, exc,
                   scripts, venvIsDir, playerExists, cmdline>>

\* run_ansible_playbook: if not os.path.isfile(player): bootstrap_ansible()
\* (with both -a and -t given, main hands it the workflow name as the playbook)
RAP_Check ==
    /\ prog = "run" /\ pc = "run" /\ run_of(args) = "run_ansible_playbook"
    /\ out' = Append(out, IsFile("venv/bin/ansible-playbook", playerExists))
    /\ IF playerExists
       THEN pc' = "rap_invoke" /\ caller' = caller
       ELSE pc' = "ba_venv" /\ caller' = "rap"
    /\ UNCHANGED <<prog, args, source, randid, path, exit_code, ret, exc, scripts,
                   venvIsDir, playerExists, cmdline>>

\* return shellcmd("venv/bin/ansible-playbook <path> [-e ...]", break_on_error=False)
RAP_Invoke ==
    /\ prog = "run"
    /\ \E rc \in ExitCodes :
         /\ Step("rap_invoke", Invoke("ansible-playbook", rc),
                 shellcmd_raises(rc, FALSE),
                 "command exited with return code", "outfile")
         /\ exit_code' = IF shellcmd_raises(rc, FALSE) THEN exit_code ELSE rc
    /\ UNCHANGED <<prog, caller, args, source, randid, path, ret, scripts,
                   venvIsDir, playerExists, cmdline>>

\* for out_path in out_paths: if os.path.isfile(out_path): print the frames and
\* the file; break.  `found` is the first candidate that is a file ("" if none).
\* An error while reading is logged and changes nothing.
outfile_events(found) ==
    IF found = "output"
    THEN <<IsFile("output", TRUE), mksep("end"), mksep("outfile")>>
    ELSE IF found = "dirname/output"
    THEN <<IsFile("output", FALSE), IsFile("dirname/output", TRUE),
           mksep("end"), mksep("outfile")>>
    ELSE <<IsFile("output", FALSE), IsFile("dirname/output", FALSE)>>

Main_Outfile ==
    /\ prog = "run" /\ pc = "outfile"
    /\ \E found \in {"output", "dirname/output", ""} :
         out' = out \o outfile_events(found)
    /\ pc' = "summary"
    /\ UNCHANGED <<prog, caller, args, source, randid, path, exit_code, ret, exc,
                   scripts, venvIsDir, playerExists, cmdline>>

\* closing_frames without the final `end`
closing_frames_unterminated == <<mksep("end"), mksep("summary")>>
\* closing_frames without the `end` that closes the phase before `summary`
closing_frames_unseparated == <<mksep("summary"), mksep("end")>>

\* print mksep('end'); print mksep('summary'); print mksep('end')
closing_frames == <<mksep("end"), mksep("summary"), mksep("end")>>

\* ...; log.info(...); return exit_code
Main_Summary ==
    /\ prog = "run" /\ pc = "summary"
    /\ out' = out \o closing_frames
    /\ ret' = exit_code
    /\ pc' = "done"
    /\ UNCHANGED <<prog, caller, args, source, randid, path, exit_code, exc,
                   scripts, venvIsDir, playerExists, cmdline>>

\* Main_Except with `return exit_code` in place of `return -1`
Main_Except_ReturnsExitCode ==
    /\ prog = "run" /\ pc = "except"
    /\ out' = out \o closing_frames
    /\ ret' = exit_code
    /\ pc' = "done"
    /\ UNCHANGED <<prog, caller, args, source, randid, path, exit_code, exc,
                   scripts, venvIsDir, playerExists, cmdline>>

\* except Exception as exc: ...; log.critical(exc); return -1
Main_Except ==
    /\ prog = "run" /\ pc = "except"
    /\ out' = out \o closing_frames
    /\ ret' = -1
    /\ pc' = "done"
    /\ UNCHANGED <<prog, caller, args, source, randid, path, exit_code, exc,
                   scripts, venvIsDir, playerExists, cmdline>>

(***************************************************************************)
(* execute_workflow.py: main                                               *)
(***************************************************************************)
\* randid = ...; print mksep('bootstrap')
EW_Start ==
    /\ prog = "execute_workflow" /\ pc = "start"
    /\ \E r \in RandIds :
         /\ randid' = r
         /\ out' = Append(out, Evt("frame", "bootstrap", r))
    /\ pc' = "ew_resolve"
    /\ UNCHANGED <<prog, caller, args, source, path, exit_code, ret, exc, scripts,
                   venvIsDir, playerExists, cmdline>>

\* client.show_stack, client.show_template: either may raise; then the branch
\* on template["location_type"]
EW_Resolve ==
    /\ prog = "execute_workflow" /\ pc = "ew_resolve"
    /\ \E rc \in {0, 1} :
         /\ out' = Append(out, Evt("api", "show_stack, show_template", rc))
         /\ IF rc # 0 THEN throw("mist api call failed")
            ELSE /\ exc' = exc
                 /\ pc' = IF source.location_type = "inline" THEN "ew_inline"
                          ELSE IF source.location_type = "github" THEN "ew_github"
                          ELSE "ew_init"
    /\ UNCHANGED <<prog, caller, args, source, randid, path, exit_code, ret,
                   scripts, venvIsDir, playerExists, cmdline>>

\* f = open("template.yaml"); f.write(...): the file is opened for reading, so
\* open raises when it does not exist and write raises when it does
EW_Inline ==
    /\ prog = "execute_workflow" /\ pc = "ew_inline"
    /\ throw("IOError: template.yaml")
    /\ UNCHANGED <<prog, caller, args, source, randid, out, path, exit_code, ret,
                   scripts, venvIsDir, playerExists, cmdline>>

\* the two requests.get calls: they may raise; without a redirect to the
\* tarball main prints the closing frames itself and returns -1
EW_Github ==
    /\ prog = "execute_workflow" /\ pc = "ew_github"
    /\ \E answer \in {"raise", "redirect", "other"} :
         IF answer = "raise"
         THEN /\ out' = Append(out, Evt("api", "github", 1))
              /\ throw("requests.get failed")
              /\ ret' = ret
         ELSE IF answer = "redirect"
         THEN /\ out' = Append(out, Evt("api", "github", 0))
              /\ pc' = "ew_download"
              /\ UNCHANGED <<exc, ret>>
         ELSE /\ out' = Append(out, Evt("api", "github", 0)) \o closing_frames
              /\ exc' = "Couldn't download git project"
              /\ ret' = -1
              /\ pc' = "done"
    /\ UNCHANGED <<prog, caller, args, source, randid, path, exit_code, scripts,
                   venvIsDir, playerExists, cmdline>>

\* path = download(path)
EW_Download ==
    /\ prog = "execute_workflow"
    /\ \E rc \in {0, 1} :
         /\ Step("ew_download", Download("tarball", rc), rc # 0,
                 "download failed", "ew_unpack")
         /\ path' = IF rc = 0 THEN Downloaded ELSE path
    /\ UNCHANGED <<prog, caller, args, source, randid, exit_code, ret, scripts,
                   venvIsDir, playerExists, cmdline>>

\* the directory trees the runs of main are tried on
TreeDeploy ==
    AddNode(AddNode(AddNode(EmptyTree, 0, "dir", "deploy"), 1, "dir", "run"),
            2, "file", "main.sh")
TreeFlat == AddNode(AddNode(EmptyTree, 0, "file", "run"), 0, "file", "main.sh")
TreeNoMain == AddNode(AddNode(EmptyTree, 0, "dir", "deploy"), 0, "file", "run")
SampleTrees == {EmptyTree, TreeDeploy, TreeFlat, TreeNoMain}

\* try: unpack(path, '/tmp/templates/')  except: pass
\* else: path = find_path('/tmp/templates', template["entrypoint"])
\* The working directory is wherever the program was started.
EW_Unpack ==
    /\ prog = "execute_workflow" /\ pc = "ew_unpack"
    /\ LET u == unpack(source) IN
       IF u.raised
       THEN /\ pc' = "ew_init"
            /\ UNCHANGED <<path, exc, scripts>>
       ELSE /\ scripts' = u.dir
            /\ \E cwd \in SampleTrees :
                 \E r \in find_path(u.dir, cwd, args.file) :
                   IF r.raised
                   THEN path' = path /\ throw(r.err)
                   ELSE path' = Entry(r.node) /\ pc' = "ew_init" /\ exc' = exc
    /\ UNCHANGED <<prog, caller, args, source, randid, out, exit_code, ret,
                   venvIsDir, playerExists, cmdline>>

\* write inputs.json; cmd = '... -p {0} ...'.format(path);
\* local_instances = os.path.join(folder, ...).  `path` is bound only on the
\* github branch, and `folder` is bound nowhere in the module: the first raises
\* UnboundLocalError, the second NameError.  Nothing below line 257 is reached.
EW_Init ==
    /\ prog = "execute_workflow" /\ pc = "ew_init"
    /\ IF path = Unbound
       THEN throw("UnboundLocalError: path")
       ELSE throw("NameError: global name 'folder' is not defined")
    /\ UNCHANGED <<prog, caller, args, source, randid, out, path, exit_code, ret,
                   scripts, venvIsDir, playerExists, cmdline>>

\* except Exception as exc: ...; log.critical(exc); return -1
EW_Except ==
    /\ prog = "execute_workflow" /\ pc = "except"
    /\ out' = out \o closing_frames
    /\ ret' = -1
    /\ pc' = "done"
    /\ UNCHANGED <<prog, caller, args, source, randid, path, exit_code, exc,
                   scripts, venvIsDir, playerExists, cmdline>>

(***************************************************************************)
(* The two programs.  A run starts from a parsed command line and from     *)
(* what the script reference holds.                                        *)
(***************************************************************************)
SampleParams ==
    {None, Str(<<>>), Str(<<Sentinel, "FOO=bar", "--flag", "baz">>)}

NonArchive == [archive |-> FALSE, tree |-> EmptyTree, location_type |-> ""]
Archive(t, lt) == [archive |-> TRUE, tree |-> t, location_type |-> lt]

RunArgs ==
    [isfile : BOOLEAN, file : {"", "run"}, params : SampleParams,
     ansible : BOOLEAN, template : BOOLEAN]
WorkflowArgs ==
    [isfile : {FALSE}, file : {"", "run"}, params : {None},
     ansible : {FALSE}, template : {FALSE}]

Idle ==
    /\ caller = "main"
    /\ randid = 0
    /\ out = <<>>
    /\ path = Unbound
    /\ exit_code = 0
    /\ ret = 0
    /\ exc = ""
    /\ scripts = NoDir
    /\ venvIsDir = FALSE
    /\ playerExists = FALSE
    /\ cmdline = NoCmd

Init ==
    /\ pc = "start"
    /\ \/ /\ prog = "run"
          /\ args \in RunArgs
          /\ source \in {NonArchive} \cup {Archive(t, "") : t \in SampleTrees}
       \/ /\ prog = "execute_workflow"
          /\ args \in WorkflowArgs
          /\ source \in {NonArchive} \cup
                        {Archive(t, lt) : t \in SampleTrees,
                                          lt \in {"inline", "github", "other"}}
    /\ Idle

Next ==
    \/ Main_Start \/ Main_Acquire \/ Main_Unpack \/ Main_Select
    \/ BA_Venv \/ BV_Download \/ BV_Unpack \/ BV_Create \/ BV_Pip
    \/ BA_Download \/ BA_Unpack \/ BA_SedPycrypto \/ BA_SedParamiko \/ BA_Pip
    \/ BA_Write
    \/ BT_Find \/ BT_Venv \/ BT_PipCloudify \/ BT_PipRequirements \/ BT_Init
    \/ Main_Frames \/ RunExecutable \/ RunTemplate \/ RAP_Check \/ RAP_Invoke
    \/ Main_Outfile \/ Main_Summary \/ Main_Except
    \/ EW_Start \/ EW_Resolve \/ EW_Inline \/ EW_Github \/ EW_Download
    \/ EW_Unpack \/ EW_Init \/ EW_Except

Spec == Init /\ [][Next]_vars

(***************************************************************************)
(* find_path on its own: every tree within the bound, every file name.     *)
(* `path` holds the local variable dirname while the loop runs.            *)
(***************************************************************************)
InDir(i) == [kind |-> "dir", node |-> i]

FP_Iter ==
    /\ prog = "find_path" /\ pc = "loop"
    /\ out' = Append(out, Evt("listdir", "", path.node))
    /\ \E r \in find_path_iter(search_root(scripts, EmptyTree), path.node, args.file) :
         IF r.cont THEN path' = InDir(r.node) /\ UNCHANGED <<pc, exc>>
         ELSE IF r.raised THEN path' = path /\ exc' = r.err /\ pc' = "raised"
         ELSE path' = Entry(r.node) /\ pc' = "returned" /\ exc' = exc
    /\ UNCHANGED <<prog, caller, args, source, randid, exit_code, ret, scripts,
                   venvIsDir, playerExists, cmdline>>

InitFindPath ==
    /\ prog = "find_path"
    /\ pc = "loop"
    /\ args \in [isfile : {FALSE}, file : {""} \cup Names, params : {None},
                 ansible : {FALSE}, template : {FALSE}]
    /\ source = NonArchive
    /\ caller = "main" /\ randid = 0 /\ out = <<>> /\ exit_code = 0 /\ ret = 0
    /\ exc = "" /\ venvIsDir = FALSE /\ playerExists = FALSE /\ cmdline = NoCmd
    /\ scripts \in {Dir(t) : t \in Trees}
    /\ path = InDir(0)

SpecFindPath == InitFindPath /\ [][FP_Iter]_vars

(***************************************************************************)
(* run_executable_file on its own: every parameter string within the bound *)
(***************************************************************************)
RX_Call ==
    /\ prog = "run_executable_file" /\ pc = "call"
    /\ run_executable_file("raised", "returned")
    /\ UNCHANGED <<prog, caller, args, source, randid, path, ret, scripts,
                   venvIsDir, playerExists>>

InitExecutable ==
    /\ prog = "run_executable_file"
    /\ pc = "call"
    /\ args \in [isfile : {TRUE}, file : {""},
                 params : {None} \cup {Str(t) : t \in SeqsUpTo(Tokens, MaxTokens)},
                 ansible : {FALSE}, template : {FALSE}]
    /\ source = NonArchive
    /\ Idle

SpecExecutable == InitExecutable /\ [][RX_Call]_vars

(***************************************************************************)
(* Properties.                                                             *)
(***************************************************************************)
Orchestrator == prog \in {"run", "execute_workflow"}
Returned == Orchestrator /\ pc = "done"

Select(k) == SelectSeq(out, LAMBDA e : e.k = k)
\* the parts of the frames printed so far, in order
FrameParts == LET f == Select("frame") IN [i \in 1..Len(f) |-> f[i].n]
Invocations == Select("invoke")
HasFrame(part) == \E i \in 1..Len(FrameParts) : FrameParts[i] = part
CountFrames(part) == Cardinality({i \in 1..Len(FrameParts) : FrameParts[i] = part})
Happened(e) == \E i \in 1..Len(out) : out[i] = e

\* C1: every run of either program prints `bootstrap` first, prints `summary`
\* once, and has printed `summary` then `end` as its last two frames when main
\* returns, whether it failed or not.
C1_Envelope ==
    Orchestrator =>
      LET f == FrameParts IN
      /\ pc # "start" => Len(f) >= 1 /\ f[1] = "bootstrap"
      /\ CountFrames("summary") <= 1
      /\ pc = "done" => /\ Len(f) >= 3
                        /\ f[Len(f) - 1] = "summary"
                        /\ f[Len(f)] = "end"
                        /\ CountFrames("summary") = 1

\* a run of run.py that failed after the `script` frame and has returned
C1_Witness ==
    /\ pc = "done" /\ prog = "run"
    /\ exc # ""
    /\ HasFrame("script")

\* the place of a phase in the order of the phases
PhaseRank(part) ==
    IF part = "bootstrap" THEN 0
    ELSE IF part \in {"script", "execute"} THEN 1
    ELSE IF part \in {"outfile", "cloudifyinstance"} THEN 2
    ELSE 3

\* C2: the frames alternate between a frame that opens a phase and one `end`
\* frame, and the phases open in the order bootstrap, at most one
\* script/execute, any number of outfile/cloudifyinstance, summary.
C2_Alternation ==
    Orchestrator =>
      LET f == FrameParts IN
      /\ \A i \in 1..Len(f) : (f[i] = "end") <=> (i % 2 = 0)
      /\ \A i \in 1..Len(f) :
           i % 2 = 1 => f[i] \in {"bootstrap", "script", "execute", "outfile",
                                 "cloudifyinstance", "summary"}
      /\ \A i, j \in 1..Len(f) :
           (i < j /\ i % 2 = 1 /\ j % 2 = 1) =>
              /\ PhaseRank(f[i]) <= PhaseRank(f[j])
              /\ PhaseRank(f[i]) = PhaseRank(f[j]) => PhaseRank(f[i]) = 2
      /\ Len(f) >= 1 => f[1] = "bootstrap"
      /\ pc = "done" => Len(f) >= 2 /\ f[Len(f) - 1] = "summary"

\* a finished run that printed the output file
C2_Witness ==
    /\ pc = "done" /\ Orchestrator
    /\ HasFrame("script") /\ HasFrame("outfile")

\* C3: in run.py, when the download or the search for the entrypoint fails, or
\* anything else raises before the `script` frame, nothing is invoked and main
\* returns -1; when nothing raises, main returns the return code of the one
\* invocation.
C3_ExitCode ==
    (prog = "run" /\ pc = "done") =>
      /\ (Happened(Download("script", 1)) \/ (exc # "" /\ ~HasFrame("script"))) =>
            /\ Invocations = <<>>
            /\ ret = -1
      /\ exc = "" => /\ Len(Invocations) = 1
                     /\ ret = Invocations[1].v

\* the search for the entrypoint failed and main has returned
C3_Witness ==
    /\ prog = "run" /\ pc = "done"
    /\ source.archive /\ path \in {ScriptFile, Downloaded}
    /\ exc = "No files match 'main.*'."
    /\ ret = -1

\* no download failed and no bootstrap command returned non-zero
NoOutsideFailure ==
    \A i \in 1..Len(out) : out[i].k \in {"download", "unpack", "cmd"} => out[i].v = 0

\* C4: in run.py, with any of the three strategies, a source that is neither
\* a tar nor a zip archive does not make the run fail: the source itself is the
\* entrypoint and the run reaches the `script` phase.
C4_NonArchiveFallback ==
    (prog = "run" /\ pc = "done" /\ ~source.archive /\ NoOutsideFailure) =>
      /\ path \in {ScriptFile, Downloaded}
      /\ HasFrame("script")

(***************************************************************************)
(* Properties of find_path (SpecFindPath)                                  *)
(***************************************************************************)
FindPathDone == prog = "find_path" /\ pc \in {"returned", "raised"}
\* the directories the loop listed, in order
Listed == LET l == Select("listdir") IN [i \in 1..Len(l) |-> l[i].v]
\* the directory the loop stopped in
LastListed == Listed[Len(Listed)]
\* every directory listed but the last holds one entry, a directory, which is
\* the next one listed
SingleChain ==
    /\ Len(Listed) >= 1 /\ Listed[1] = 0
    /\ \A i \in 1..(Len(Listed) - 1) :
         /\ listdir(scripts.tree, Listed[i]) = {Listed[i + 1]}
         /\ isdir(scripts.tree, Listed[i + 1])

\* C5: with a file name given, find_path raises when the directory it stops
\* in holds no file of that name, and never returns a path with another name.
C5_ExplicitFilename ==
    (FindPathDone /\ args.file # "") =>
      /\ pc = "returned" => scripts.tree.name[path.node] = args.file
      /\ (~\E i \in listdir(scripts.tree, LastListed) :
             scripts.tree.name[i] = args.file /\ isfile(scripts.tree, i))
           => pc = "raised"

\* C6: without a file name, find_path ends, goes down only through directories
\* whose one entry is a directory, and what it returns is a file in the first
\* directory on the way that has two or more entries (a main.* match) or whose
\* one entry is a file; for deploy/run/main.sh alone it returns main.sh.
C6_DefaultEntrypoint ==
    (prog = "find_path" /\ args.file = "") =>
      /\ Len(Listed) <= Len(scripts.tree.parent) + 1
      /\ pc = "loop" => ENABLED FP_Iter
      /\ FindPathDone => SingleChain
      /\ pc = "returned" =>
           /\ isfile(scripts.tree, path.node)
           /\ scripts.tree.parent[path.node] = LastListed
           /\ LET ldir == listdir(scripts.tree, LastListed) IN
              \/ ldir = {path.node}
              \/ Cardinality(ldir) >= 2 /\ MatchesMainStar(scripts.tree.name[path.node])
      /\ (FindPathDone /\ scripts.tree = TreeDeploy) => path = Entry(3)

(***************************************************************************)
(* Properties of run_executable_file (SpecExecutable)                      *)
(***************************************************************************)
\* the subsequence of s at the indices in I
Sub(s, I) ==
    LET F[i \in 0..Len(s)] ==
          IF i = 0 THEN <<>>
          ELSE IF i \in I THEN Append(F[i - 1], s[i]) ELSE F[i - 1]
    IN F[Len(s)]

\* what the export convention asks of a parameter string holding the sentinel
SentinelAt(toks) == CHOOSE i \in 1..Len(toks) :
                       toks[i] = Sentinel /\ \A j \in 1..(i - 1) : toks[j] # Sentinel
NextDash(toks) ==
    LET s == SentinelAt(toks)
        D == {i \in (s + 1)..Len(toks) : StartsWithDash(toks[i])} IN
    IF D = {} THEN Len(toks) + 1 ELSE CHOOSE i \in D : \A j \in D : i <= j
ExportedAt(toks) ==
    {i \in (SentinelAt(toks) + 1)..(NextDash(toks) - 1) : HasEq(toks[i])}
ExpectedCmd(toks) ==
    [exports |-> Sub(toks, ExportedAt(toks)),
     args |-> Sub(toks, (1..Len(toks)) \ (ExportedAt(toks) \cup {SentinelAt(toks)}))]

\* C7: for a parameter string holding the token --mist-export-params the
\* command exports exactly the KEY=VALUE tokens between the sentinel and the
\* next token starting with `-`, and its arguments are the other tokens, the
\* sentinel left out, in their original order.
C7_ExportParams ==
    (prog = "run_executable_file" /\ pc = "returned"
       /\ \E i \in 1..Len(args.params.toks) : args.params.toks[i] = Sentinel) =>
      cmdline = ExpectedCmd(args.params.toks)

(***************************************************************************)
(* Properties of the runs, continued                                       *)
(***************************************************************************)
Player == "venv/bin/ansible-playbook"
BootstrapStep(e) == e.k \in {"download", "unpack", "cmd"}

C8_WitnessBootstrapped ==
    /\ prog = "run"
    /\ Happened(IsFile(Player, FALSE))
    /\ \E j \in 1..Len(out) : out[j].k = "invoke" /\ out[j].n = "ansible-playbook"

\* C9: in run.py a non-zero return code of the invocation is not raised: the
\* output file is looked for (and framed if there is one), `summary` is printed
\* and main returns that return code.
C9_NonZeroExit ==
    (prog = "run" /\ pc = "done") =>
      \A j \in 1..Len(out) :
        (out[j].k = "invoke" /\ out[j].v # 0) =>
          /\ exc = ""
          /\ ret = out[j].v
          /\ \E m \in (j + 1)..Len(out) : out[m].k = "isfile" /\ out[m].n = "output"
          /\ (\E m \in (j + 1)..Len(out) :
                out[m].k = "isfile" /\ out[m].n \in {"output", "dirname/output"}
                /\ out[m].v = 1)
               <=> HasFrame("outfile")
          /\ HasFrame("summary")

\* the invocation returned non-zero, there was an output file, main returned
C9_Witness ==
    /\ prog = "run" /\ pc = "done"
    /\ \E j \in 1..Len(out) : out[j].k = "invoke" /\ out[j].v # 0
    /\ HasFrame("outfile")
    /\ ret # 0

\* C10: in execute_workflow.py, when the stack and template are resolved, the
\* tarball downloaded and unpacked and the entrypoint found, the run prints an
\* `execute` frame, runs `cfy local execute` once and returns its return code.
C10_WorkflowExecuted ==
    (prog = "execute_workflow" /\ pc = "done" /\ path.kind = "entry") =>
      /\ HasFrame("execute")
      /\ Len(Invocations) = 1
      /\ Invocations[1].n = "cfy local execute"
      /\ ret = Invocations[1].v

\* C11: every frame of a run carries the same separator token: it is chosen
\* before the first frame and does not change afterwards, whether the run
\* fails or not.
C11_OneSeparator ==
    Orchestrator =>
      /\ \A i \in 1..Len(out) : out[i].k = "frame" => out[i].v = randid
      /\ pc # "start" => randid \in RandIds

\* the token, once chosen, is kept by every step
C11_SeparatorKept == [][pc # "start" => randid' = randid]_vars

\* a run that failed and has returned, all its frames printed
C11_Witness ==
    /\ Returned
    /\ exc # ""
    /\ Len(FrameParts) >= 4
    /\ randid = NumIds

\* C12: in run.py, with the ansible and the template strategy, a bootstrap
\* command (creating the virtualenv, installing the dependencies, initialising
\* the orchestration state) that returns non-zero makes the run fail: nothing
\* is invoked, no `script` frame is printed and main returns -1.
C12_BootstrapFailurePropagates ==
    (prog = "run" /\ pc = "done"
       /\ \E i \in 1..Len(out) : out[i].k = "cmd" /\ out[i].v # 0) =>
      /\ Invocations = <<>>
      /\ ~HasFrame("script")
      /\ ret = -1

\* C13: in run.py the user's script, playbook or workflow is invoked at most
\* once, after the `script` frame and before the `end` that closes it: the
\* last frame printed before the invocation is `script`.
C13_InvokedInScriptPhase ==
    prog = "run" =>
      /\ Len(Invocations) <= 1
      /\ \A j \in 1..Len(out) :
           out[j].k = "invoke" =>
             \E i \in 1..(j - 1) :
               /\ out[i].k = "frame" /\ out[i].n = "script"
               /\ \A m \in (i + 1)..(j - 1) : out[m].k # "frame"
      /\ (pc = "done" /\ Invocations # <<>>) =>
           \E j \in 1..Len(out) :
             /\ out[j].k = "invoke"
             /\ \E m \in (j + 1)..Len(out) : out[m].k = "frame" /\ out[m].n = "end"

\* a finished run of run.py that invoked the entrypoint and printed the output file
C13_Witness ==
    /\ prog = "run" /\ pc = "done"
    /\ Len(Invocations) = 1
    /\ HasFrame("outfile")
    /\ exc = ""

====
